---- MODULE Spec2Model ----
(***************************************************************************)
(* Account registration and login service (src/main.py).                   *)
(*                                                                         *)
(* One shared sqlite3 connection `conn` holds the table `accounts`.  The   *)
(* two endpoints are plain `def` functions, so the framework runs them on  *)
(* worker threads: every handler is modelled as a process whose steps are  *)
(* the statements that touch the connection (INSERT, SELECT, UPDATE,       *)
(* commit).  Request bodies are validated by the pydantic models before    *)
(* the endpoint function is entered.                                       *)
(*                                                                         *)
(* Strings are sequences of one-character strings, so that the regular     *)
(* expressions and len() of the validators are computed, not assumed.      *)
(***************************************************************************)
EXTENDS Integers, Sequences, FiniteSets, TLC

VARIABLES accounts, in_transaction, pc, req, row, resp,
          seen, registered, authenticated, nRegistered, nConflict,
          nreq, nadmin

vars == <<accounts, in_transaction, pc, req, row, resp,
          seen, registered, authenticated, nRegistered, nConflict,
          nreq, nadmin>>

(***************************************************************************)
(* Bounds of the model.                                                    *)
(***************************************************************************)
NumHandlers == 2
MaxRequests == 3
MaxAdminOps == 1

Handlers == 1..NumHandlers

None == "None"

(* `row is None` after fetchone(); a real row has id >= 1. *)
NoRow == [id |-> 0, name |-> <<>>, status |-> None]

(* Absent entry of `seen`; names and messages are never empty. *)
Nothing == <<>>

(***************************************************************************)
(* AccountStatus                                                           *)
(***************************************************************************)
ACTIVE == "Active"
DISABLED == "Disabled"
DELETED == "Deleted"
IN_PROGRESS == "In progress"

AccountStatus == {ACTIVE, DISABLED, DELETED, IN_PROGRESS}

(***************************************************************************)
(* Character classes of the regular expressions.                           *)
(***************************************************************************)
Upper == {"A","B","C","D","E","F","G","H","I","J","K","L","M",
          "N","O","P","Q","R","S","T","U","V","W","X","Y","Z"}

Lower == {"a","b","c","d","e","f","g","h","i","j","k","l","m",
          "n","o","p","q","r","s","t","u","v","w","x","y","z"}

Digit == {"0","1","2","3","4","5","6","7","8","9"}

Letters == Upper \cup Lower

AlphaNum == Letters \cup Digit

(* re.match(r"^[cls]+$", value): `$` matches at the end of the string and   *)
(* also just before a newline that is the last character of the string.    *)
ReMatchAnchored(value, cls) ==
    LET n == Len(value)
        body == IF n > 0 /\ value[n] = "\n" THEN SubSeq(value, 1, n - 1)
                ELSE value
    IN  /\ Len(body) >= 1
        /\ \A i \in 1..Len(body) : body[i] \in cls

(* re.search(r"[cls]", value) *)
ReSearch(value, cls) == \E i \in 1..Len(value) : value[i] \in cls

(***************************************************************************)
(* Validators of the pydantic models User and Login.                       *)
(***************************************************************************)
MinAge == 18
MaxAge == 120
MinPasswordLen == 10

validate_age(value) == value >= MinAge /\ value <= MaxAge

validate_name_letters_only(value) == ReMatchAnchored(value, Letters)

validate_surname_letters_only(value) == ReMatchAnchored(value, Letters)

validate_username_alphanumeric(value) == ReMatchAnchored(value, AlphaNum)

validate_password_strength(value) ==
    /\ ~(Len(value) < MinPasswordLen)
    /\ ReSearch(value, Upper)
    /\ ReSearch(value, Digit)

LoginModelValid(r) ==
    /\ validate_username_alphanumeric(r.username)
    /\ validate_password_strength(r.password)

UserModelValid(r) ==
    /\ validate_name_letters_only(r.name)
    /\ validate_surname_letters_only(r.surname)
    /\ validate_age(r.age)

AccountCreateValid(r) == UserModelValid(r) /\ LoginModelValid(r)

(***************************************************************************)
(* Request bodies handled by the model.                                    *)
(***************************************************************************)
sAlice == <<"A","l","i","c","e">>
sAliceBang == <<"A","l","i","c","e","!">>
sAliceNl == <<"A","l","i","c","e","\n">>
sBob == <<"B","o","b">>
sSmith == <<"S","m","i","t","h">>
sSm1th == <<"S","m","1","t","h">>
sJones == <<"J","o","n","e","s">>
sAlice123 == <<"A","l","i","c","e","1","2","3">>
sBob7 == <<"B","o","b","7">>
sUser123 == <<"U","s","e","r","1","2","3">>
sUser_1 == <<"U","s","e","r","_","1">>
sUnknownUser == <<"U","n","k","n","o","w","n","U","s","e","r">>
sBlaBla1234 == <<"B","l","a","B","l","a","1","2","3","4">>
sWhatever123 == <<"W","h","a","t","e","v","e","r","1","2","3">>
sShort1 == <<"S","h","o","r","t","1">>
sblabla1234 == <<"b","l","a","b","l","a","1","2","3","4">>
sBlaBlaBlaB == <<"B","l","a","B","l","a","B","l","a","B">>

RegReq(n, s, a, u, p) ==
    [op |-> "register", name |-> n, surname |-> s, age |-> a,
     username |-> u, password |-> p]

LoginReq(u, p) == [op |-> "login", username |-> u, password |-> p]

RegAlice == RegReq(sAlice, sSmith, 25, sAlice123, sBlaBla1234)

RegisterInputs ==
    { RegAlice,
      RegReq(sBob, sJones, 18, sAlice123, sWhatever123),
      RegReq(sBob, sSmith, 120, sBob7, sBlaBla1234),
      RegReq(sAliceBang, sSmith, 17, sUser123, sShort1),
      [RegAlice EXCEPT !.age = 17],
      [RegAlice EXCEPT !.age = 121],
      [RegAlice EXCEPT !.name = sAliceNl],
      [RegAlice EXCEPT !.surname = sSm1th],
      [RegAlice EXCEPT !.username = sUser_1],
      [RegAlice EXCEPT !.password = sblabla1234],
      [RegAlice EXCEPT !.password = sBlaBlaBlaB] }

LoginInputs ==
    { LoginReq(sAlice123, sBlaBla1234),
      LoginReq(sAlice123, sWhatever123),
      LoginReq(sBob7, sBlaBla1234),
      LoginReq(sUnknownUser, sWhatever123),
      LoginReq(sAlice123, sShort1),
      LoginReq(sUser_1, sBlaBla1234) }

Usernames == { r.username : r \in RegisterInputs \cup LoginInputs }

NoReq == [op |-> None]

(***************************************************************************)
(* Responses.                                                              *)
(***************************************************************************)
HTTP_200_OK == 200
HTTP_400_BAD_REQUEST == 400
HTTP_404_NOT_FOUND == 404
HTTP_422_UNPROCESSABLE == 422

NoResp == [code |-> 0, body |-> <<>>]

InvalidInput == [code |-> HTTP_422_UNPROCESSABLE, body |-> <<"validation error">>]

Registered == [code |-> HTTP_200_OK, body |-> <<"Thank you for registering!">>]

IntegrityErrorText == "UNIQUE constraint failed: accounts.username"

Conflict == [code |-> HTTP_400_BAD_REQUEST,
             body |-> <<"Could not create account: ", IntegrityErrorText>>]

NotFound(username) ==
    [code |-> HTTP_404_NOT_FOUND,
     body |-> <<"User ">> \o username \o <<" Not Found">>]

GreetingBody_Username(user_name, username) ==
    <<"Hello, ">> \o username \o <<"!">>

GreetingBody(user_name, username) == <<"Hello, ">> \o user_name \o <<"!">>

Authenticated(user_name, username) ==
    [code |-> HTTP_200_OK, body |-> GreetingBody(user_name, username)]

(***************************************************************************)
(* The table `accounts`.                                                   *)
(***************************************************************************)
(* username TEXT NOT NULL UNIQUE: the INSERT of row r raises IntegrityError  *)
(* when a stored row has the same username.                                *)
UniqueViolation_None(accts, r) == FALSE

UniqueViolation_OnPassword(accts, r) ==
    \E i \in 1..Len(accts) : accts[i].password = r.password

UniqueViolation(accts, r) ==
    \E i \in 1..Len(accts) : accts[i].username = r.username

InitialStatus == IN_PROGRESS

NewRow_Active(accts, r) ==
    [id |-> Len(accts) + 1, name |-> r.name, surname |-> r.surname,
     age |-> r.age, username |-> r.username, password |-> r.password,
     status |-> ACTIVE]

NewRow(accts, r) ==
    [id |-> Len(accts) + 1, name |-> r.name, surname |-> r.surname,
     age |-> r.age, username |-> r.username, password |-> r.password,
     status |-> InitialStatus]

SelectMatches_UsernameOnly(a, username, password) == a.username = username

SelectMatches(a, username, password) ==
    a.username = username /\ a.password = password

SelectByCredentials(accts, username, password) ==
    LET hits == { i \in 1..Len(accts) :
                    SelectMatches(accts[i], username, password) }
    IN  IF hits = {} THEN NoRow
        ELSE LET i == CHOOSE j \in hits : \A k \in hits : j <= k
             IN  [id |-> accts[i].id, name |-> accts[i].name,
                  status |-> accts[i].status]

NeedsUpdate_Always(current_status) == TRUE

NeedsUpdate_Inverted(current_status) == current_status = ACTIVE

NeedsUpdate(current_status) == current_status # ACTIVE

UpdateStatus_NoWhere(accts, account_id, newStatus) ==
    [i \in 1..Len(accts) |-> [accts[i] EXCEPT !.status = newStatus]]

UpdateStatus(accts, account_id, newStatus) ==
    [i \in 1..Len(accts) |->
        IF accts[i].id = account_id
        THEN [accts[i] EXCEPT !.status = newStatus]
        ELSE accts[i]]

(***************************************************************************)
(* Initial state: the connection is open, the table is created and empty,  *)
(* no request is being handled.                                            *)
(***************************************************************************)
Init ==
    /\ accounts = <<>>
    /\ in_transaction = FALSE
    /\ pc = [h \in Handlers |-> "idle"]
    /\ req = [h \in Handlers |-> NoReq]
    /\ row = [h \in Handlers |-> NoRow]
    /\ resp = [h \in Handlers |-> NoResp]
    /\ seen = [h \in Handlers |-> [reg |-> Nothing, auth |-> Nothing]]
    /\ registered = {}
    /\ authenticated = {}
    /\ nRegistered = [u \in Usernames |-> 0]
    /\ nConflict = [u \in Usernames |-> 0]
    /\ nreq = 0
    /\ nadmin = 0

(* What the client of the request already knows when it sends it: the name *)
(* a completed registration with these credentials stored, and the message *)
(* a completed login with these credentials returned.                      *)
SeenAt(r) ==
    [reg  |-> IF \E e \in registered :
                    e.username = r.username /\ e.password = r.password
              THEN (CHOOSE e \in registered :
                    e.username = r.username /\ e.password = r.password).name
              ELSE Nothing,
     auth |-> IF \E e \in authenticated :
                    e.username = r.username /\ e.password = r.password
              THEN (CHOOSE e \in authenticated :
                    e.username = r.username /\ e.password = r.password).body
              ELSE Nothing]

(***************************************************************************)
(* POST /register_account                                                  *)
(***************************************************************************)
ReceiveRegister(h) ==
    /\ pc[h] = "idle"
    /\ nreq < MaxRequests
    /\ \E r \in RegisterInputs :
         /\ req' = [req EXCEPT ![h] = r]
         /\ seen' = [seen EXCEPT ![h] = SeenAt(r)]
         /\ IF AccountCreateValid(r)
            THEN /\ pc' = [pc EXCEPT ![h] = "insert"]
                 /\ resp' = resp
            ELSE /\ pc' = [pc EXCEPT ![h] = "responded"]
                 /\ resp' = [resp EXCEPT ![h] = InvalidInput]
    /\ nreq' = nreq + 1
    /\ UNCHANGED <<accounts, in_transaction, row, registered, authenticated,
                   nRegistered, nConflict, nadmin>>

RegisterInsert(h) ==
    /\ pc[h] = "insert"
    /\ in_transaction' = TRUE
    /\ IF UniqueViolation(accounts, req[h])
       THEN /\ accounts' = accounts
            /\ pc' = [pc EXCEPT ![h] = "responded"]
            /\ resp' = [resp EXCEPT ![h] = Conflict]
            /\ nConflict' = [nConflict EXCEPT ![req[h].username] = @ + 1]
       ELSE /\ accounts' = Append(accounts, NewRow(accounts, req[h]))
            /\ pc' = [pc EXCEPT ![h] = "register_commit"]
            /\ resp' = resp
            /\ nConflict' = nConflict
    /\ UNCHANGED <<req, row, seen, registered, authenticated, nRegistered,
                   nreq, nadmin>>

RegisterCommit(h) ==
    /\ pc[h] = "register_commit"
    /\ in_transaction' = FALSE
    /\ pc' = [pc EXCEPT ![h] = "responded"]
    /\ resp' = [resp EXCEPT ![h] = Registered]
    /\ registered' = registered \cup
           {[name |-> req[h].name, username |-> req[h].username,
             password |-> req[h].password]}
    /\ nRegistered' = [nRegistered EXCEPT ![req[h].username] = @ + 1]
    /\ UNCHANGED <<accounts, req, row, seen, authenticated, nConflict,
                   nreq, nadmin>>

(***************************************************************************)
(* POST /login                                                             *)
(***************************************************************************)
ReceiveLogin(h) ==
    /\ pc[h] = "idle"
    /\ nreq < MaxRequests
    /\ \E r \in LoginInputs :
         /\ req' = [req EXCEPT ![h] = r]
         /\ seen' = [seen EXCEPT ![h] = SeenAt(r)]
         /\ IF LoginModelValid(r)
            THEN /\ pc' = [pc EXCEPT ![h] = "select"]
                 /\ resp' = resp
            ELSE /\ pc' = [pc EXCEPT ![h] = "responded"]
                 /\ resp' = [resp EXCEPT ![h] = InvalidInput]
    /\ nreq' = nreq + 1
    /\ UNCHANGED <<accounts, in_transaction, row, registered, authenticated,
                   nRegistered, nConflict, nadmin>>

LoginSelect(h) ==
    /\ pc[h] = "select"
    /\ LET found == SelectByCredentials(accounts, req[h].username,
                                        req[h].password)
       IN  /\ row' = [row EXCEPT ![h] = found]
           /\ IF found = NoRow
              THEN /\ pc' = [pc EXCEPT ![h] = "responded"]
                   /\ resp' = [resp EXCEPT ![h] = NotFound(req[h].username)]
              ELSE /\ pc' = [pc EXCEPT ![h] =
                              IF NeedsUpdate(found.status) THEN "update"
                              ELSE "login_commit"]
                   /\ resp' = resp
    /\ UNCHANGED <<accounts, in_transaction, req, seen, registered,
                   authenticated, nRegistered, nConflict, nreq, nadmin>>

LoginUpdate(h) ==
    /\ pc[h] = "update"
    /\ in_transaction' = TRUE
    /\ accounts' = UpdateStatus(accounts, row[h].id, ACTIVE)
    /\ pc' = [pc EXCEPT ![h] = "login_commit"]
    /\ UNCHANGED <<req, row, resp, seen, registered, authenticated,
                   nRegistered, nConflict, nreq, nadmin>>

LoginCommit(h) ==
    /\ pc[h] = "login_commit"
    /\ in_transaction' = FALSE
    /\ pc' = [pc EXCEPT ![h] = "responded"]
    /\ resp' = [resp EXCEPT ![h] =
                  Authenticated(row[h].name, req[h].username)]
    /\ authenticated' = authenticated \cup
           {[username |-> req[h].username, password |-> req[h].password,
             body |-> GreetingBody(row[h].name, req[h].username)]}
    /\ UNCHANGED <<accounts, req, row, seen, registered, nRegistered,
                   nConflict, nreq, nadmin>>

(* The response has been sent; the worker thread is free again. *)
Finish(h) ==
    /\ pc[h] = "responded"
    /\ pc' = [pc EXCEPT ![h] = "idle"]
    /\ req' = [req EXCEPT ![h] = NoReq]
    /\ row' = [row EXCEPT ![h] = NoRow]
    /\ resp' = [resp EXCEPT ![h] = NoResp]
    /\ seen' = [seen EXCEPT ![h] = [reg |-> Nothing, auth |-> Nothing]]
    /\ UNCHANGED <<accounts, in_transaction, registered, authenticated,
                   nRegistered, nConflict, nreq, nadmin>>

Next ==
    \E h \in Handlers :
        \/ ReceiveRegister(h)
        \/ RegisterInsert(h)
        \/ RegisterCommit(h)
        \/ ReceiveLogin(h)
        \/ LoginSelect(h)
        \/ LoginUpdate(h)
        \/ LoginCommit(h)
        \/ Finish(h)

Spec == Init /\ [][Next]_vars

(***************************************************************************)
(* Administration outside the service: the enum has the values DISABLED    *)
(* and DELETED, which no endpoint writes.  SpecAdmin adds an operator who  *)
(* sets them directly in the table, at a moment when no request is being   *)
(* handled, so that every later change of such a row is an endpoint's own.  *)
(***************************************************************************)
AdminSetStatus(i, st) ==
    /\ nadmin < MaxAdminOps
    /\ \A h \in Handlers : pc[h] = "idle"
    /\ i \in 1..Len(accounts)
    /\ st \in {DISABLED, DELETED}
    /\ accounts' = [accounts EXCEPT ![i].status = st]
    /\ nadmin' = nadmin + 1
    /\ UNCHANGED <<in_transaction, pc, req, row, resp, seen, registered,
                   authenticated, nRegistered, nConflict, nreq>>

NextAdmin ==
    \/ Next
    \/ \E i \in 1..Len(accounts), st \in {DISABLED, DELETED} :
         AdminSetStatus(i, st)

SpecAdmin == Init /\ [][NextAdmin]_vars

(***************************************************************************)
(* Properties.                                                             *)
(***************************************************************************)
IsLogin(h) == req[h].op = "login"

IsRegister(h) == req[h].op = "register"

Stored(u) == \E i \in 1..Len(accounts) : accounts[i].username = u

StoredWith(u, p) ==
    \E i \in 1..Len(accounts) :
        accounts[i].username = u /\ accounts[i].password = p

(* C1: a Login sent after a Register with the same username and password   *)
(* returned Registered is answered 200 "Hello, <name>!", <name> being the   *)
(* name given at registration, whatever else was handled in between.       *)
C1_RegisterThenLogin ==
    \A h \in Handlers :
        (IsLogin(h) /\ pc[h] = "responded" /\ seen[h].reg # Nothing)
        => resp[h] = [code |-> 200,
                      body |-> <<"Hello, ">> \o seen[h].reg \o <<"!">>]

C1_Witness ==
    \E h \in Handlers :
        /\ IsLogin(h) /\ pc[h] = "responded" /\ seen[h].reg # Nothing
        /\ resp[h].code = 200
        /\ seen[h].reg # req[h].username
        /\ Len(accounts) = 2
        /\ accounts[1].username = req[h].username

(* C2 as stated: every Register whose username is already stored gets      *)
(* Conflict and leaves the table as it was.                                *)
C2_Original ==
    [][\A h \in Handlers :
         (/\ pc[h] \in {"idle", "insert"}
          /\ pc'[h] = "responded"
          /\ req'[h].op = "register"
          /\ Stored(req'[h].username))
         => (/\ resp'[h].code = 400
             /\ Head(resp'[h].body) = "Could not create account: "
             /\ accounts' = accounts)]_vars

(* C2 amended: a Register that passes the validators and whose username is *)
(* already stored gets 400 with a detail starting "Could not create        *)
(* account: " and leaves the table as it was, whatever its other fields.   *)
C2_DuplicateRegisterConflict ==
    [][\A h \in Handlers :
         (/\ pc[h] = "insert"
          /\ pc'[h] # "insert"
          /\ Stored(req[h].username))
         => (/\ pc'[h] = "responded"
             /\ resp'[h].code = 400
             /\ Head(resp'[h].body) = "Could not create account: "
             /\ accounts' = accounts)]_vars

C2_Witness ==
    \E h \in Handlers :
        /\ IsRegister(h) /\ pc[h] = "responded" /\ resp[h].code = 400
        /\ \E i \in 1..Len(accounts) :
             /\ accounts[i].username = req[h].username
             /\ accounts[i].name # req[h].name
             /\ accounts[i].surname # req[h].surname
             /\ accounts[i].age # req[h].age
             /\ accounts[i].password # req[h].password

OnlyOf(value, cls) == \A i \in 1..Len(value) : value[i] \in cls

HasOneOf(value, cls) == \E i \in 1..Len(value) : value[i] \in cls

StatedInvalid(r) ==
    \/ r.age < 18
    \/ r.age > 120
    \/ ~OnlyOf(r.name, Letters)
    \/ ~OnlyOf(r.surname, Letters)
    \/ ~OnlyOf(r.username, AlphaNum)
    \/ Len(r.password) < 10
    \/ ~HasOneOf(r.password, Upper)
    \/ ~HasOneOf(r.password, Digit)

C4_InvalidRegisterRejected ==
    /\ \A h \in Handlers :
         (IsRegister(h) /\ StatedInvalid(req[h]))
         => (pc[h] = "responded" /\ resp[h].code = 422)
    /\ \A i \in 1..Len(accounts) : ~StatedInvalid(accounts[i])

(* C5: a Login sent after a Login with the same credentials returned       *)
(* Authenticated returns Authenticated with the identical message, reads   *)
(* the status ACTIVE and issues no UPDATE; the account stays ACTIVE.       *)
C5_LoginIdempotent ==
    \A h \in Handlers :
        (IsLogin(h) /\ seen[h].auth # Nothing)
        => /\ pc[h] # "update"
           /\ pc[h] \in {"login_commit", "responded"}
                => row[h].status = ACTIVE
           /\ pc[h] = "responded"
                => resp[h] = [code |-> 200, body |-> seen[h].auth]
           /\ \A i \in 1..Len(accounts) :
                (accounts[i].username = req[h].username
                 /\ accounts[i].password = req[h].password)
                => accounts[i].status = ACTIVE

C5_Witness ==
    \E h \in Handlers :
        /\ IsLogin(h) /\ seen[h].auth # Nothing
        /\ pc[h] = "responded" /\ resp[h].code = 200
        /\ row[h].status = ACTIVE

(* C6: no two stored accounts have the same username, and of all the       *)
(* Registers with one username that passed validation, concurrent or not,  *)
(* exactly one returns Registered and every other one returns Conflict.    *)
C6_UniqueUsername ==
    /\ \A i, j \in 1..Len(accounts) :
         i # j => accounts[i].username # accounts[j].username
    /\ \A u \in Usernames :
         /\ nRegistered[u] <= 1
         /\ (/\ nRegistered[u] + nConflict[u] >= 1
             /\ ~\E h \in Handlers :
                   /\ IsRegister(h) /\ req[h].username = u
                   /\ pc[h] \in {"insert", "register_commit"})
            => nRegistered[u] = 1
    /\ \A h \in Handlers :
         (IsRegister(h) /\ pc[h] = "responded" /\ resp[h].code # 422)
         => \/ resp[h].code = 200
            \/ resp[h].code = 400 /\ Stored(req[h].username)

C6_Witness ==
    \E h1, h2 \in Handlers :
        /\ h1 # h2
        /\ IsRegister(h1) /\ pc[h1] = "responded" /\ resp[h1].code = 200
        /\ IsRegister(h2) /\ pc[h2] = "responded" /\ resp[h2].code = 400
        /\ req[h1].username = req[h2].username
        /\ nRegistered[req[h1].username] = 1
        /\ Len(accounts) = 1

(* C7: every Login that matched an account it read as IN_PROGRESS, however *)
(* its SELECT, UPDATE and commit interleave with those of other Logins on  *)
(* the same account, leaves the account ACTIVE once its own status write   *)
(* is done and returns 200 "Hello, <name>!" for the account's name; two     *)
(* such Logins return the same response.                                   *)
C7_ConcurrentLogin ==
    /\ \A h \in Handlers :
         (IsLogin(h) /\ row[h].status = IN_PROGRESS
          /\ pc[h] \in {"login_commit", "responded"})
         => /\ accounts[row[h].id].status = ACTIVE
            /\ accounts[row[h].id].username = req[h].username
            /\ pc[h] = "responded"
                 => resp[h] = [code |-> 200,
                               body |-> <<"Hello, ">>
                                        \o accounts[row[h].id].name
                                        \o <<"!">>]
    /\ \A h1, h2 \in Handlers :
         (/\ IsLogin(h1) /\ IsLogin(h2)
          /\ pc[h1] = "responded" /\ pc[h2] = "responded"
          /\ row[h1].id # 0 /\ row[h1].id = row[h2].id)
         => resp[h1] = resp[h2]

C7_Witness ==
    \E h1, h2 \in Handlers :
        /\ h1 # h2
        /\ IsLogin(h1) /\ IsLogin(h2)
        /\ pc[h1] = "responded" /\ pc[h2] = "responded"
        /\ row[h1].status = IN_PROGRESS /\ row[h2].status = IN_PROGRESS
        /\ row[h1].id = row[h2].id
        /\ resp[h1].code = 200 /\ resp[h2].code = 200
        /\ accounts[row[h1].id].status = ACTIVE

(* C8: apart from the administrator's own writes, the only status change   *)
(* is IN_PROGRESS -> ACTIVE, made by a Login whose credentials match; a    *)
(* DISABLED or DELETED account keeps its status, an ACTIVE one stays       *)
(* ACTIVE.                                                                 *)
C8_OnlyInProgressToActive ==
    [][\A i \in 1..Len(accounts) :
         (nadmin' = nadmin /\ accounts'[i].status # accounts[i].status)
         => /\ accounts[i].status = IN_PROGRESS
            /\ accounts'[i].status = ACTIVE
            /\ \E h \in Handlers :
                 /\ IsLogin(h)
                 /\ accounts[i].username = req[h].username
                 /\ accounts[i].password = req[h].password]_vars

(* C9: no step removes a row or changes the id, name, surname, age,        *)
(* username or password of a stored row; a step changes the status of a    *)
(* row only if it is the UPDATE of a Login whose credentials are those of  *)
(* that row.                                                               *)
C9_RowsKept ==
    [][/\ Len(accounts') >= Len(accounts)
       /\ \A i \in 1..Len(accounts) :
            /\ accounts'[i].id = accounts[i].id
            /\ accounts'[i].name = accounts[i].name
            /\ accounts'[i].surname = accounts[i].surname
            /\ accounts'[i].age = accounts[i].age
            /\ accounts'[i].username = accounts[i].username
            /\ accounts'[i].password = accounts[i].password
            /\ accounts'[i].status # accounts[i].status
                 => \E h \in Handlers :
                      /\ IsLogin(h)
                      /\ pc[h] = "update" /\ pc'[h] # "update"
                      /\ accounts[i].username = req[h].username
                      /\ accounts[i].password = req[h].password]_vars

C9_Witness ==
    /\ Len(accounts) = 2
    /\ accounts[1].id = 1 /\ accounts[2].id = 2
    /\ \E i, j \in 1..2 :
         accounts[i].status = ACTIVE /\ accounts[j].status = IN_PROGRESS

(* C10: with Register and Login only, every account is IN_PROGRESS until a *)
(* Login with its username and password has matched it and written its    *)
(* status (that Login has returned Authenticated or is at its commit), and *)
(* ACTIVE from then on; no account is ever DISABLED or DELETED.            *)
LoginSucceeded(a) ==
    \/ \E e \in authenticated :
         e.username = a.username /\ e.password = a.password
    \/ \E h \in Handlers :
         /\ IsLogin(h) /\ pc[h] = "login_commit"
         /\ req[h].username = a.username /\ req[h].password = a.password

C10_StatusFollowsLogin ==
    \A i \in 1..Len(accounts) :
        /\ accounts[i].status \notin {DISABLED, DELETED}
        /\ accounts[i].status =
             IF LoginSucceeded(accounts[i]) THEN ACTIVE ELSE IN_PROGRESS

C10_Witness ==
    \E i, j \in 1..Len(accounts) :
        /\ accounts[i].status = ACTIVE
        /\ \E e \in authenticated : e.username = accounts[i].username
        /\ accounts[j].status = IN_PROGRESS
        /\ ~\E e \in authenticated : e.username = accounts[j].username

====
